---- MODULE Spec2Model ----
(***************************************************************************)
(* Model of the honeypot chat service, src/honeypot/main.py: the session   *)
(* map, the chat_handler endpoint, the reply generator, the intelligence   *)
(* extractor and the background report callback.                           *)
(*                                                                         *)
(* A Python str is a sequence of one-character strings, so that lower(),   *)
(* the `in` substring test and split() are computed and not assumed.       *)
(* Optional[T] is a sequence of length at most one: <<>> is None, <<x>> is *)
(* the value x.  Timestamps are ticks of a logical clock.                  *)
(***************************************************************************)
EXTENDS Integers, Sequences, FiniteSets, TLC

\* ------------------------------------------------------------- bounds
\* Number of requests the model lets the endpoint receive.
MaxRequests == 3

\* Longest conversationHistory handed to the reply generator on its own.
MaxConversation == 3

\* Longest stored history handed to the report callback on its own.
MaxHistory == 3

\* ------------------------------------------------------------ literals
\* "bank"
KW_BANK ==
    <<"b","a","n","k">>

\* "verify"
KW_VERIFY ==
    <<"v","e","r","i","f","y">>

\* "block"
KW_BLOCK ==
    <<"b","l","o","c","k">>

\* "suspend"
KW_SUSPEND ==
    <<"s","u","s","p","e","n","d">>

\* "upi"
KW_UPI ==
    <<"u","p","i">>

\* "urgent"
KW_URGENT ==
    <<"u","r","g","e","n","t">>

\* "pan card"
KW_PAN_CARD ==
    <<"p","a","n"," ","c","a","r","d">>

\* "kyc"
KW_KYC ==
    <<"k","y","c">>

\* "expired"
KW_EXPIRED ==
    <<"e","x","p","i","r","e","d">>

\* "http"
STR_HTTP ==
    <<"h","t","t","p">>

\* "Who is this? Why are you messaging me?"
OPENER_REPLY ==
    <<"W","h","o"," ","i","s"," ","t","h","i","s","?"," ","W","h","y"," ","a",
      "r","e"," ","y","o","u"," ","m","e","s","s","a","g","i","n","g"," ","m",
      "e","?">>

\* "I don't know how to verify. Can you help me?"
VERIFY_REPLY ==
    <<"I"," ","d","o","n","'","t"," ","k","n","o","w"," ","h","o","w"," ","t",
      "o"," ","v","e","r","i","f","y","."," ","C","a","n"," ","y","o","u"," ",
      "h","e","l","p"," ","m","e","?">>

\* "Oh no! My bank account? What happened?"
BANK_REPLY ==
    <<"O","h"," ","n","o","!"," ","M","y"," ","b","a","n","k"," ","a","c","c",
      "o","u","n","t","?"," ","W","h","a","t"," ","h","a","p","p","e","n","e",
      "d","?">>

\* "I send money using GPay normally. Is that UPI?"
UPI_REPLY ==
    <<"I"," ","s","e","n","d"," ","m","o","n","e","y"," ","u","s","i","n","g",
      " ","G","P","a","y"," ","n","o","r","m","a","l","l","y","."," ","I","s",
      " ","t","h","a","t"," ","U","P","I","?">>

\* "I am confused."
FALLBACK_1 ==
    <<"I"," ","a","m"," ","c","o","n","f","u","s","e","d",".">>

\* "Please tell me what to do."
FALLBACK_2 ==
    <<"P","l","e","a","s","e"," ","t","e","l","l"," ","m","e"," ","w","h","a",
      "t"," ","t","o"," ","d","o",".">>

\* "Is this official?"
FALLBACK_3 ==
    <<"I","s"," ","t","h","i","s"," ","o","f","f","i","c","i","a","l","?">>

\* "I am getting scared."
FALLBACK_4 ==
    <<"I"," ","a","m"," ","g","e","t","t","i","n","g"," ","s","c","a","r","e",
      "d",".">>

\* "Hello, how can I help you?"
GREETING_REPLY ==
    <<"H","e","l","l","o",","," ","h","o","w"," ","c","a","n"," ","I"," ","h",
      "e","l","p"," ","y","o","u","?">>

\* "Hi there"
TEXT_HI ==
    <<"H","i"," ","t","h","e","r","e">>

\* "your bank account is suspended, verify KYC now"
TEXT_KYC ==
    <<"y","o","u","r"," ","b","a","n","k"," ","a","c","c","o","u","n","t"," ",
      "i","s"," ","s","u","s","p","e","n","d","e","d",","," ","v","e","r","i",
      "f","y"," ","K","Y","C"," ","n","o","w">>

\* "send to upi id scammer@ybl to verify"
TEXT_UPI ==
    <<"s","e","n","d"," ","t","o"," ","u","p","i"," ","i","d"," ","s","c","a",
      "m","m","e","r","@","y","b","l"," ","t","o"," ","v","e","r","i","f","y">>

\* "URGENT pay at http://pay.in now"
TEXT_LINK ==
    <<"U","R","G","E","N","T"," ","p","a","y"," ","a","t"," ","h","t","t","p",
      ":","/","/","p","a","y",".","i","n"," ","n","o","w">>

\* "UPI Bank"
TEXT_UPI_BANK ==
    <<"U","P","I"," ","B","a","n","k">>

\* "ok a@b a@b"
TEXT_MAIL ==
    <<"o","k"," ","a","@","b"," ","a","@","b">>

\* "Pay by UPI today"
TEXT_UPI_ONLY ==
    <<"P","a","y"," ","b","y"," ","U","P","I"," ","t","o","d","a","y">>

\* "BANK alert"
TEXT_BANK_ONLY ==
    <<"B","A","N","K"," ","a","l","e","r","t">>

\* "Verify your Bank UPI"
TEXT_ALL ==
    <<"V","e","r","i","f","y"," ","y","o","u","r"," ","B","a","n","k"," ","U",
      "P","I">>

\* "a/c 1234567890 call +919876543210"
TEXT_ACCOUNT ==
    <<"a","/","c"," ","1","2","3","4","5","6","7","8","9","0"," ","c","a","l",
      "l"," ","+","9","1","9","8","7","6","5","4","3","2","1","0">>

\* "my pan  card"
TEXT_PAN_WIDE ==
    <<"m","y"," ","p","a","n"," "," ","c","a","r","d">>

\* ------------------------------------------------------- Python strings
\* str.lower() on the ASCII letters; every other character is unchanged
LOWER ==
    [ A |-> "a", B |-> "b", C |-> "c", D |-> "d", E |-> "e", F |-> "f",
      G |-> "g", H |-> "h", I |-> "i", J |-> "j", K |-> "k", L |-> "l",
      M |-> "m", N |-> "n", O |-> "o", P |-> "p", Q |-> "q", R |-> "r",
      S |-> "s", T |-> "t", U |-> "u", V |-> "v", W |-> "w", X |-> "x",
      Y |-> "y", Z |-> "z" ]

\* The characters str.split() with no argument treats as separators.
WHITESPACE == {" ", "\t", "\n", "\r", "\f"}

lower_char(c) == IF c \in DOMAIN LOWER THEN LOWER[c] ELSE c

RECURSIVE lower_from(_, _)
lower_from(s, i) ==
    IF i > Len(s) THEN << >>
    ELSE << lower_char(s[i]) >> \o lower_from(s, i + 1)

\* str.lower()
str_lower(s) == lower_from(s, 1)

\* Does sub occur in s at (1-based) position i
occurs_at(sub, s, i) ==
    /\ i >= 1
    /\ i + Len(sub) - 1 <= Len(s)
    /\ \A k \in 1..Len(sub) : s[i + k - 1] = sub[k]

\* Python's `sub in s`
str_in(sub, s) ==
    \E i \in 1..(Len(s) - Len(sub) + 1) :
        \A k \in 1..Len(sub) : s[i + k - 1] = sub[k]

\* str.find(sub, start), 1-based; 0 when sub does not occur from start on
str_find(sub, s, start) ==
    IF \E i \in start..(Len(s) + 1) : occurs_at(sub, s, i)
    THEN CHOOSE i \in start..(Len(s) + 1) :
             /\ occurs_at(sub, s, i)
             /\ \A j \in start..(i - 1) : ~occurs_at(sub, s, j)
    ELSE 0

\* Python's `x in list`
list_in(x, list) == \E i \in 1..Len(list) : list[i] = x

RECURSIVE split_from(_, _, _)
\* s.split(sep) for a non-empty separator, scanning from position start
split_from(s, sep, start) ==
    LET i == str_find(sep, s, start)
    IN  IF i = 0
        THEN << SubSeq(s, start, Len(s)) >>
        ELSE << SubSeq(s, start, i - 1) >> \o split_from(s, sep, i + Len(sep))

\* s.split(sep)
str_split(s, sep) == split_from(s, sep, 1)

RECURSIVE words_from(_, _, _)
\* s.split(): the maximal runs of non-whitespace characters, in order.
\* cur is the run being read when position i is reached.
words_from(s, i, cur) ==
    IF i > Len(s)
    THEN IF cur = << >> THEN << >> ELSE << cur >>
    ELSE IF s[i] \in WHITESPACE
         THEN (IF cur = << >> THEN << >> ELSE << cur >>)
                  \o words_from(s, i + 1, << >>)
         ELSE words_from(s, i + 1, Append(cur, s[i]))

\* s.split()
str_words(s) == words_from(s, 1, << >>)

\* ----------------------------------------------------------- Optional
None == << >>

Some(x) == << x >>

\* ------------------------------------------------------ configuration
VALID_API_KEYS == {"sk_test_123456789"}

SCAM_KEYWORDS ==
    << KW_BANK, KW_VERIFY, KW_BLOCK, KW_SUSPEND, KW_UPI, KW_URGENT,
       KW_PAN_CARD, KW_KYC, KW_EXPIRED >>

\* ---------------------------------------------------------- detection
\* Mutant: the text is not lower-cased before the search
detect_scam_case_sensitive(text) ==
    \E k \in 1..Len(SCAM_KEYWORDS) : str_in(SCAM_KEYWORDS[k], text)

detect_scam(text) ==
    LET text_lower == str_lower(text)
    IN  \E k \in 1..Len(SCAM_KEYWORDS) : str_in(SCAM_KEYWORDS[k], text_lower)

\* -------------------------------------------------------------- reply
FALLBACK_REPLIES == { FALLBACK_1, FALLBACK_2, FALLBACK_3, FALLBACK_4 }

\* request.dict()["conversationHistory"], the value session_data.get() reads:
\* the key is always present in request.dict(), so the default is never used.
history_of(session_data) == session_data.conversationHistory

\* len() of None raises TypeError
generate_agent_reply_raises(last_scammer_text, session_data) ==
    history_of(session_data) = None

\* Mutant: the "bank" template is tried before the "verify" template
generate_agent_reply_bank_first(last_scammer_text, session_data) ==
    LET history_len == Len(history_of(session_data)[1])
        text_lower  == str_lower(last_scammer_text)
    IN  IF history_len < 2 THEN { OPENER_REPLY }
        ELSE IF str_in(KW_BANK, text_lower) THEN { BANK_REPLY }
        ELSE IF str_in(KW_VERIFY, text_lower) THEN { VERIFY_REPLY }
        ELSE IF str_in(KW_UPI, text_lower) THEN { UPI_REPLY }
        ELSE FALLBACK_REPLIES

\* The values generate_agent_reply can return (random.choice is a choice
\* among the pool) when it does not raise.
generate_agent_reply(last_scammer_text, session_data) ==
    LET history_len == Len(history_of(session_data)[1])
        text_lower  == str_lower(last_scammer_text)
    IN  IF history_len < 2 THEN { OPENER_REPLY }
        ELSE IF str_in(KW_VERIFY, text_lower) THEN { VERIFY_REPLY }
        ELSE IF str_in(KW_BANK, text_lower) THEN { BANK_REPLY }
        ELSE IF str_in(KW_UPI, text_lower) THEN { UPI_REPLY }
        ELSE FALLBACK_REPLIES

\* --------------------------------------------------------- extraction
EMPTY_INTEL ==
    [ bankAccounts       |-> << >>,
      upiIds             |-> << >>,
      phishingLinks      |-> << >>,
      phoneNumbers       |-> << >>,
      suspiciousKeywords |-> << >> ]

\* text.split("http")[1].split(" ")[0]
link_of(text) == str_split(str_split(text, STR_HTTP)[2], <<" ">>)[1]

\* if "http" in text: intel["phishingLinks"].append(...)
scan_links(phishingLinks, text) ==
    IF str_in(STR_HTTP, text)
    THEN Append(phishingLinks, link_of(text))
    ELSE phishingLinks

RECURSIVE append_handles(_, _, _)
\* for w in words: if "@" in w: intel["upiIds"].append(w)
append_handles(upiIds, words, i) ==
    IF i > Len(words) THEN upiIds
    ELSE append_handles(
             IF str_in(<<"@">>, words[i]) THEN Append(upiIds, words[i]) ELSE upiIds,
             words, i + 1)

\* if "@" in text and "upi" not in intel["upiIds"]: ...
scan_handles(upiIds, text) ==
    IF str_in(<<"@">>, text) /\ ~list_in(KW_UPI, upiIds)
    THEN append_handles(upiIds, str_words(text), 1)
    ELSE upiIds

RECURSIVE scan_keywords(_, _, _)
\* for kw in SCAM_KEYWORDS: if kw in text.lower() and kw not in ...: append
\* (text_lower is text.lower(), the same value at every turn of the loop)
scan_keywords(suspiciousKeywords, text_lower, k) ==
    IF k > Len(SCAM_KEYWORDS) THEN suspiciousKeywords
    ELSE LET kw == SCAM_KEYWORDS[k]
         IN  scan_keywords(
                 IF str_in(kw, text_lower) /\ ~list_in(kw, suspiciousKeywords)
                 THEN Append(suspiciousKeywords, kw)
                 ELSE suspiciousKeywords,
                 text_lower, k + 1)

\* Mutant: a message's tokens that start with a digit or "+" and are 10 or
\* more characters long are recorded as phone numbers
scan_message_with_phones(intel, msg) ==
    IF msg.sender = "user" THEN intel
    ELSE [ intel EXCEPT
             !.phishingLinks      = scan_links(@, msg.text),
             !.upiIds             = scan_handles(@, msg.text),
             !.phoneNumbers       =
                 @ \o SelectSeq(str_words(msg.text),
                        LAMBDA w : Len(w) >= 10 /\ w[1] \in
                            {"+","0","1","2","3","4","5","6","7","8","9"}),
             !.suspiciousKeywords = scan_keywords(@, str_lower(msg.text), 1) ]

\* Mutant: messages of every sender are scanned
scan_message_every_sender(intel, msg) ==
    [ intel EXCEPT
        !.phishingLinks      = scan_links(@, msg.text),
        !.upiIds             = scan_handles(@, msg.text),
        !.suspiciousKeywords = scan_keywords(@, str_lower(msg.text), 1) ]

\* The body of the loop over history, for one message
scan_message(intel, msg) ==
    IF msg.sender = "user" THEN intel
    ELSE [ intel EXCEPT
             !.phishingLinks      = scan_links(@, msg.text),
             !.upiIds             = scan_handles(@, msg.text),
             !.suspiciousKeywords = scan_keywords(@, str_lower(msg.text), 1) ]

RECURSIVE scan_history(_, _, _)
scan_history(intel, history, i) ==
    IF i > Len(history) THEN intel
    ELSE scan_history(scan_message(intel, history[i]), history, i + 1)

extract_intelligence(history) == scan_history(EMPTY_INTEL, history, 1)

\* Mutant: the report covers the four messages held when the first report
\* was scheduled, not the history held when the task runs
callback_payload_at_schedule(session_id, session_data) ==
    LET history == SubSeq(session_data.history, 1, 4)
    IN  [ sessionId              |-> session_id,
          scamDetected           |-> session_data.scam_detected,
          totalMessagesExchanged |-> Len(history),
          extractedIntelligence  |-> extract_intelligence(history),
          agentNotes |-> "Rule-based agent detected scam keywords and engaged." ]

\* The report send_callback assembles and prints
callback_payload(session_id, session_data) ==
    LET history == session_data.history
    IN  [ sessionId              |-> session_id,
          scamDetected           |-> session_data.scam_detected,
          totalMessagesExchanged |-> Len(history),
          extractedIntelligence  |-> extract_intelligence(history),
          agentNotes |-> "Rule-based agent detected scam keywords and engaged." ]

\* -------------------------------------------------------------- state
VARIABLES
    sessions,          \* the module-level dict: session id -> session
    background_tasks,  \* callbacks scheduled by add_task and not yet run
    sent,              \* the payloads send_callback has printed, in order
    clock,             \* requests received so far; datetime.now() reads it
    last_request,      \* the request and header of the last call, None at start
    response           \* what the last call returned or raised

vars == << sessions, background_tasks, sent, clock, last_request, response >>

\* ------------------------------------------------------------- inputs
SessionIds == {"s1", "s2"}

ApiKeys == VALID_API_KEYS \cup {"wrong_key"}

Metadata == {"sms"}

\* What a caller can put in message.text
InboundTexts == { TEXT_HI, TEXT_UPI }

\* MessageRequest
Message(sender, text, timestamp) ==
    [ sender |-> sender, text |-> text, timestamp |-> timestamp ]

InboundMessages == { Message("scammer", t, 0) : t \in InboundTexts }

\* conversationHistory: Optional[List[MessageRequest]] = []
ConversationHistories ==
    { None,
      Some(<< >>),
      Some(<< Message("scammer", TEXT_HI, 0), Message("user", TEXT_HI, 0) >>) }

\* HoneyPotRequest together with the x-api-key header
Call(x_api_key, sessionId, message, conversationHistory, metadata) ==
    [ x_api_key |-> x_api_key,
      request   |-> [ sessionId           |-> sessionId,
                      message             |-> message,
                      conversationHistory |-> conversationHistory,
                      metadata            |-> metadata ] ]

\* Every call with a valid key, and one call per session id with a wrong one
Calls ==
    { Call(k, sid, m, h, md) :
        k \in VALID_API_KEYS, sid \in SessionIds, m \in InboundMessages,
        h \in ConversationHistories, md \in Metadata }
    \cup
    { Call(k, sid, Message("scammer", TEXT_UPI, 0), Some(<< >>), md) :
        k \in ApiKeys \ VALID_API_KEYS, sid \in SessionIds, md \in Metadata }

\* ----------------------------------------------------------- responses
HoneyPotResponse(reply) == [ status |-> 200, reply |-> reply ]

\* raise HTTPException(status_code=401, detail="Invalid API Key")
Unauthorized == [ status |-> 401, reply |-> << >> ]

\* An exception that leaves the handler: the framework answers 500
ServerError == [ status |-> 500, reply |-> << >> ]

NoResponse == [ status |-> 0, reply |-> << >> ]

\* ------------------------------------------------------------ handler
\* Mutant: the key is not checked
authorized_anyone(x_api_key) == TRUE

\* if x_api_key not in VALID_API_KEYS: raise HTTPException(401)
authorized(x_api_key) == x_api_key \in VALID_API_KEYS

\* Mutant: a new id rebinds the map to a dict holding that session alone
get_or_create_rebinds(store, sid, metadata) ==
    IF sid \in DOMAIN store THEN store
    ELSE (sid :> [ history |-> << >>, metadata |-> metadata,
                   scam_detected |-> FALSE ])

\* if sid not in sessions: sessions[sid] = {...}
get_or_create(store, sid, metadata) ==
    IF sid \in DOMAIN store THEN store
    ELSE (sid :> [ history |-> << >>, metadata |-> metadata,
                   scam_detected |-> FALSE ]) @@ store

\* Mutant: the history is assigned the new message instead of growing by it
replace_history(store, sid, msg) ==
    [ store EXCEPT ![sid].history = << msg >> ]

\* sessions[sid]["history"].append(msg)
append_history(store, sid, msg) ==
    [ store EXCEPT ![sid].history = Append(@, msg) ]

\* Mutant: the flag is assigned the classification of the current message
mark_scam_assign(store, sid, is_scam) ==
    [ store EXCEPT ![sid].scam_detected = is_scam ]

\* Mutant: the flag is set whatever the classification
mark_scam_always(store, sid, is_scam) ==
    [ store EXCEPT ![sid].scam_detected = TRUE ]

\* if is_scam: sessions[sid]["scam_detected"] = True
mark_scam(store, sid, is_scam) ==
    IF is_scam THEN [ store EXCEPT ![sid].scam_detected = TRUE ] ELSE store

\* Mutant: the threshold as the comment words it, "> 4 messages"
should_callback_above_4(history) == Len(history) > 4

\* if len(sessions[sid]["history"]) >= 4
should_callback(history) == Len(history) >= 4

\* background_tasks.add_task(send_callback, sid, sessions[sid]); the task
\* holds the live session, so only the id is kept.
add_task(tasks, store, sid) ==
    IF should_callback(store[sid].history) THEN Append(tasks, sid) ELSE tasks

Init ==
    /\ sessions = << >>
    /\ background_tasks = << >>
    /\ sent = << >>
    /\ clock = 0
    /\ last_request = None
    /\ response = NoResponse

chat_handler(call) ==
    LET request     == call.request
        sid         == request.sessionId
        current_msg == request.message
        created     == get_or_create(sessions, sid, request.metadata)
        appended    == append_history(created, sid, current_msg)
        is_scam     == detect_scam(current_msg.text)
        detected    == mark_scam(appended, sid, is_scam)
    IN  /\ clock < MaxRequests
        /\ clock' = clock + 1
        /\ last_request' = Some(call)
        /\ UNCHANGED sent
        /\ IF ~authorized(call.x_api_key)
           THEN /\ response' = Unauthorized
                /\ UNCHANGED << sessions, background_tasks >>
           ELSE IF detected[sid].scam_detected
           THEN IF generate_agent_reply_raises(current_msg.text, request)
                THEN /\ response' = ServerError
                     /\ sessions' = detected
                     /\ UNCHANGED background_tasks
                ELSE \E reply_text \in generate_agent_reply(current_msg.text, request) :
                         LET our_reply == Message("user", reply_text, clock')
                             replied   == append_history(detected, sid, our_reply)
                         IN  /\ sessions' = replied
                             /\ background_tasks' =
                                    add_task(background_tasks, replied, sid)
                             /\ response' = HoneyPotResponse(reply_text)
           ELSE /\ response' = HoneyPotResponse(GREETING_REPLY)
                /\ sessions' = detected
                /\ UNCHANGED background_tasks

\* Mutant: the task empties the history it has reported
send_callback_consumes(i) ==
    LET session_id == background_tasks[i]
    IN  /\ background_tasks' =
               SubSeq(background_tasks, 1, i - 1)
                   \o SubSeq(background_tasks, i + 1, Len(background_tasks))
        /\ sent' = Append(sent, callback_payload(session_id, sessions[session_id]))
        /\ sessions' = [sessions EXCEPT ![session_id].history = << >>]
        /\ UNCHANGED << clock, last_request, response >>

\* Mutant: the task ends without the report being sent
send_callback_lost(i) ==
    /\ background_tasks' =
           SubSeq(background_tasks, 1, i - 1)
               \o SubSeq(background_tasks, i + 1, Len(background_tasks))
    /\ UNCHANGED << sessions, sent, clock, last_request, response >>

\* The i-th scheduled task runs: send_callback(sid, sessions[sid])
send_callback(i) ==
    LET session_id == background_tasks[i]
    IN  /\ background_tasks' =
               SubSeq(background_tasks, 1, i - 1)
                   \o SubSeq(background_tasks, i + 1, Len(background_tasks))
        /\ sent' = Append(sent, callback_payload(session_id, sessions[session_id]))
        /\ UNCHANGED << sessions, clock, last_request, response >>

Next ==
    \/ \E call \in Calls : chat_handler(call)
    \/ \E i \in 1..Len(background_tasks) : send_callback(i)

Spec == Init /\ [][Next]_vars

\* The framework runs the tasks of a response once the response is sent: a
\* scheduled task is not left waiting for ever.
\* Under Next the only step that takes a task off the queue is send_callback
\* of that task, so fairness is stated on the queue alone.
run_background_tasks ==
    \E i \in 1..Len(background_tasks) :
        background_tasks' =
            SubSeq(background_tasks, 1, i - 1)
                \o SubSeq(background_tasks, i + 1, Len(background_tasks))

SpecFair == Spec /\ WF_background_tasks(run_background_tasks)

\* ------------------------------------- the reply generator on its own
\* generate_agent_reply applied to one drawn text and conversationHistory.
ReplyTexts ==
    { TEXT_HI, TEXT_KYC, TEXT_UPI, TEXT_LINK, TEXT_UPI_BANK, TEXT_MAIL,
      TEXT_UPI_ONLY, TEXT_BANK_ONLY, TEXT_ALL }

conversation_of_len(n) ==
    [ i \in 1..n |->
        Message(IF i % 2 = 1 THEN "scammer" ELSE "user", TEXT_HI, 0) ]

ReplyHistories ==
    { None } \cup { Some(conversation_of_len(n)) : n \in 0..MaxConversation }

ReplyCalls ==
    { Call(k, "s1", Message("scammer", t, 0), h, md) :
        k \in VALID_API_KEYS, t \in ReplyTexts, h \in ReplyHistories,
        md \in Metadata }

InitReply ==
    /\ sessions = << >>
    /\ background_tasks = << >>
    /\ sent = << >>
    /\ clock = 0
    /\ last_request \in { Some(call) : call \in ReplyCalls }
    /\ response = NoResponse

\* reply_text = generate_agent_reply(current_msg.text, request.dict())
reply_step ==
    LET request == last_request[1].request
        text    == request.message.text
    IN  /\ response = NoResponse
        /\ IF generate_agent_reply_raises(text, request)
           THEN response' = ServerError
           ELSE \E reply_text \in generate_agent_reply(text, request) :
                    response' = HoneyPotResponse(reply_text)
        /\ UNCHANGED << sessions, background_tasks, sent, clock, last_request >>

NextReply == reply_step

SpecReply == InitReply /\ [][NextReply]_vars

\* ------------------------------------------- the detector on its own
\* detect_scam applied to one drawn text, as chat_handler applies it to the
\* first message of a session.  The texts hold each indicator written in
\* lower case, in upper case, capitalised, and with its last character cut
\* off, alone and inside a longer text.
UPPER ==
    [ a |-> "A", b |-> "B", c |-> "C", d |-> "D", e |-> "E", f |-> "F",
      g |-> "G", h |-> "H", i |-> "I", j |-> "J", k |-> "K", l |-> "L",
      m |-> "M", n |-> "N", o |-> "O", p |-> "P", q |-> "Q", r |-> "R",
      s |-> "S", t |-> "T", u |-> "U", v |-> "V", w |-> "W", x |-> "X",
      y |-> "Y", z |-> "Z" ]

upper_char(c) == IF c \in DOMAIN UPPER THEN UPPER[c] ELSE c

str_upper(s) == [ i \in 1..Len(s) |-> upper_char(s[i]) ]

capitalised(s) == [ i \in 1..Len(s) |-> IF i = 1 THEN upper_char(s[i]) ELSE s[i] ]

cut_short(s) == SubSeq(s, 1, Len(s) - 1)

Around == { << << >>, << >> >>, << <<"x">>, << >> >>,
            << << >>, <<"s", "!">> >>, << <<"D","e","a","r"," ">>, <<" ","n","o","w">> >> }

Keywords == { SCAM_KEYWORDS[k] : k \in 1..Len(SCAM_KEYWORDS) }

\* Texts that hold an indicator, in some casing
IndicatorTexts ==
    { a[1] \o w \o a[2] :
        a \in Around,
        w \in UNION { { kw, str_upper(kw), capitalised(kw) } : kw \in Keywords } }

\* Texts that hold none
PlainTexts ==
    { a[1] \o cut_short(kw) \o a[2] : a \in Around, kw \in Keywords }
        \cup { << >>, TEXT_HI, TEXT_MAIL, TEXT_ACCOUNT, TEXT_PAN_WIDE }

DetectCalls ==
    { Call(k, "s1", Message("scammer", t, 0), Some(<< >>), md) :
        k \in VALID_API_KEYS, t \in IndicatorTexts \cup PlainTexts,
        md \in Metadata }

InitDetect ==
    /\ sessions = << >>
    /\ background_tasks = << >>
    /\ sent = << >>
    /\ clock = 0
    /\ last_request \in { Some(call) : call \in DetectCalls }
    /\ response = NoResponse

\* chat_handler from the session update to the flag: the message is stored
\* and classified
detect_step ==
    LET request     == last_request[1].request
        sid         == request.sessionId
        current_msg == request.message
        created     == get_or_create(sessions, sid, request.metadata)
        appended    == append_history(created, sid, current_msg)
        is_scam     == detect_scam(current_msg.text)
    IN  /\ DOMAIN sessions = {}
        /\ sessions' = mark_scam(appended, sid, is_scam)
        /\ UNCHANGED << background_tasks, sent, clock, last_request, response >>

NextDetect == detect_step

SpecDetect == InitDetect /\ [][NextDetect]_vars

\* ------------------------------------- the report callback on its own
\* send_callback applied to one session whose stored history is drawn:
\* adversary messages with handles, links, keywords, an account number and
\* a phone number, and agent replies that hold keywords themselves.
ExtractMessages ==
    { Message("scammer", t, 0) :
        t \in { TEXT_UPI, TEXT_LINK, TEXT_MAIL, TEXT_ACCOUNT } }
    \cup
    { Message("user", t, 1) : t \in { VERIFY_REPLY, BANK_REPLY, UPI_REPLY } }

ExtractHistories ==
    UNION { [ 1..n -> ExtractMessages ] : n \in 0..MaxHistory }

InitExtract ==
    /\ \E history \in ExtractHistories :
           sessions = ("s1" :> [ history |-> history, metadata |-> "sms",
                                 scam_detected |-> TRUE ])
    /\ background_tasks = << "s1" >>
    /\ sent = << >>
    /\ clock = 0
    /\ last_request = None
    /\ response = NoResponse

NextExtract == \E i \in 1..Len(background_tasks) : send_callback(i)

SpecExtract == InitExtract /\ [][NextExtract]_vars

\* ---------------------------------------------------- reading a state
\* The session a call addresses, as it is before the call is handled
history_before(sid) ==
    IF sid \in DOMAIN sessions THEN sessions[sid].history ELSE << >>

flag_before(sid) ==
    IF sid \in DOMAIN sessions THEN sessions[sid].scam_detected ELSE FALSE

\* This step is chat_handler receiving `call`
Handled(call) == clock' = clock + 1 /\ last_request' = Some(call)

\* This step schedules a report for sid
Scheduled(sid) == background_tasks' = Append(background_tasks, sid)

\* How many reports have been scheduled for sid so far: those waiting and
\* those already sent
scheduled_count(sid) ==
    Cardinality({ i \in 1..Len(background_tasks) : background_tasks[i] = sid })
        + Cardinality({ i \in 1..Len(sent) : sent[i].sessionId = sid })

is_prefix(a, b) == Len(a) <= Len(b) /\ SubSeq(b, 1, Len(a)) = a

\* The last call had a valid key
last_call_valid ==
    last_request /= None /\ last_request[1].x_api_key \in VALID_API_KEYS

last_sid == last_request[1].request.sessionId

last_text == last_request[1].request.message.text

last_history == sessions[last_sid].history

\* ------------------------------------------------------------- claims

\* C1 (as stated): for every session id, chat_handler schedules the report
\* dispatch at most once in total, however many engaged messages find
\* len(history) >= 4.
C1_ReportOnce == \A sid \in SessionIds : scheduled_count(sid) <= 1

\* C2 (as stated): whenever detect_scam is false for the inbound message of
\* an authenticated call, in a NEW and in an ENGAGED session alike, the
\* reply is the neutral greeting, scam_detected is unchanged and the history
\* grows by the inbound message alone.
C2_BenignInEveryState ==
    [][ \A call \in Calls :
          LET sid == call.request.sessionId
              msg == call.request.message
          IN  (Handled(call) /\ call.x_api_key \in VALID_API_KEYS
                             /\ ~detect_scam(msg.text))
              => /\ response' = HoneyPotResponse(GREETING_REPLY)
                 /\ sessions'[sid].scam_detected = flag_before(sid)
                 /\ sessions'[sid].history = Append(history_before(sid), msg)
      ]_vars

\* C2 (amended): whenever detect_scam is false for the inbound message of an
\* authenticated call and the session's scam_detected is false before the
\* call, the reply is the neutral greeting, scam_detected stays false and
\* the history grows by the inbound message alone.
C2_BenignWhenNotEngaged ==
    [][ \A call \in Calls :
          LET sid == call.request.sessionId
              msg == call.request.message
          IN  (Handled(call) /\ call.x_api_key \in VALID_API_KEYS
                             /\ ~detect_scam(msg.text) /\ ~flag_before(sid))
              => /\ response' = HoneyPotResponse(GREETING_REPLY)
                 /\ sessions'[sid].scam_detected = FALSE
                 /\ sessions'[sid].history = Append(history_before(sid), msg)
      ]_vars

\* A second benign message of a session that was never engaged got the
\* greeting and no agent reply was stored.
C2_Witness ==
    /\ last_call_valid
    /\ ~detect_scam(last_text)
    /\ response = HoneyPotResponse(GREETING_REPLY)
    /\ ~sessions[last_sid].scam_detected
    /\ Len(last_history) = 2
    /\ \A i \in 1..2 : last_history[i].sender /= "user"

\* C3 (as stated): an authenticated call leaves the old history a prefix of
\* the new one and lengthens it by 1 if the message is benign (detect_scam
\* false) and by 2 if it is engaged and replied to.
C3_AppendOnlyByClass ==
    [][ \A call \in Calls :
          LET sid  == call.request.sessionId
              msg  == call.request.message
              old  == history_before(sid)
              grow == Len(sessions'[sid].history) - Len(old)
          IN  (Handled(call) /\ call.x_api_key \in VALID_API_KEYS)
              => /\ is_prefix(old, sessions'[sid].history)
                 /\ grow \in {1, 2}
                 /\ ~detect_scam(msg.text) => grow = 1
                 /\ (sessions'[sid].scam_detected /\ response'.status = 200)
                        => grow = 2
      ]_vars

\* C3 (amended): an authenticated call leaves the old history a prefix of
\* the new one and lengthens it by exactly 1 or 2: by 2 exactly when an
\* agent reply is returned, which is when the session is engaged after the
\* message is classified (also for a benign message of a session engaged
\* earlier) and the reply generator does not raise; by 1 otherwise.
C3_AppendOnly ==
    [][ \A call \in Calls :
          LET sid  == call.request.sessionId
              msg  == call.request.message
              old  == history_before(sid)
              new  == sessions'[sid].history
              engaged == flag_before(sid) \/ detect_scam(msg.text)
              replied == engaged /\ call.request.conversationHistory /= None
          IN  (Handled(call) /\ call.x_api_key \in VALID_API_KEYS)
              => /\ is_prefix(old, new)
                 /\ Len(new) - Len(old) = (IF replied THEN 2 ELSE 1)
                 /\ new[Len(old) + 1] = msg
                 /\ replied <=> response'.status = 200 /\ new[Len(new)].sender = "user"
                                   /\ new[Len(new)].text = response'.reply
      ]_vars

\* A benign message reached a session engaged earlier and an agent reply
\* was stored after it: the history grew by 2.
C3_Witness ==
    /\ last_call_valid
    /\ ~detect_scam(last_text)
    /\ response.status = 200
    /\ Len(last_history) = 4
    /\ last_history[3].text = last_text /\ last_history[3].sender /= "user"
    /\ last_history[4].sender = "user"

\* C4: once a session's scam_detected is true it is true after every further
\* step: a message for this or another session, benign or not, accepted or
\* rejected, and a report being sent.
C4_ScamDetectedMonotonic ==
    [][ \A sid \in DOMAIN sessions :
          sessions[sid].scam_detected
              => sid \in DOMAIN sessions' /\ sessions'[sid].scam_detected
      ]_vars

\* An engaged session received a benign message after its report was sent,
\* and is still engaged.
C4_Witness ==
    /\ last_call_valid
    /\ ~detect_scam(last_text)
    /\ sessions[last_sid].scam_detected
    /\ \E i \in 1..Len(sent) : sent[i].sessionId = last_sid

\* C5 (as stated): on the engaged path the reply is the opener exactly when
\* the session's stored history holds fewer than 2 messages at reply time
\* (the stored history without the reply being appended).
C5_OpenerCountsStoredHistory ==
    (last_call_valid /\ response.status = 200 /\ sessions[last_sid].scam_detected)
        => (response.reply = OPENER_REPLY <=> Len(last_history) - 1 < 2)

\* C7: a call whose key is not in the allow-list is answered 401 and leaves
\* the session map (so no session is created, no history grows, no flag
\* changes), the scheduled reports and the sent reports unchanged.
C7_UnauthorizedNoEffect ==
    [][ \A call \in Calls :
          (Handled(call) /\ call.x_api_key \notin VALID_API_KEYS)
              => /\ response' = Unauthorized
                 /\ UNCHANGED << sessions, background_tasks, sent >>
      ]_vars

\* A call with a wrong key for an id never seen was rejected while another
\* session exists: no session was created for it.
C7_Witness ==
    /\ last_request /= None
    /\ last_request[1].x_api_key \notin VALID_API_KEYS
    /\ response = Unauthorized
    /\ last_sid \notin DOMAIN sessions
    /\ DOMAIN sessions /= {}

\* C9 (as stated): whenever detect_scam is true for the inbound message of
\* an authenticated call, afterwards the session's scam_detected is true,
\* the last two history entries are the inbound message and an agent
\* message, and the agent message's text is the reply returned.
C9_EngagedBranch ==
    (last_call_valid /\ detect_scam(last_text))
        => /\ sessions[last_sid].scam_detected
           /\ Len(last_history) >= 2
           /\ last_history[Len(last_history) - 1] = last_request[1].request.message
           /\ last_history[Len(last_history)].sender = "user"
           /\ response.status = 200
           /\ last_history[Len(last_history)].text = response.reply

C6_FirstMatchPrecedence ==
    LET request == last_request[1].request
        lowered == str_lower(request.message.text)
        verify  == str_in(KW_VERIFY, lowered)
        bank    == str_in(KW_BANK, lowered)
        upi     == str_in(KW_UPI, lowered)
    IN  (response /= NoResponse
            /\ request.conversationHistory /= None
            /\ Len(request.conversationHistory[1]) >= 2)
        => /\ response.status = 200
           /\ verify => response.reply = VERIFY_REPLY
           /\ (~verify /\ bank) => response.reply = BANK_REPLY
           /\ (~verify /\ ~bank /\ upi) => response.reply = UPI_REPLY
           /\ (~verify /\ ~bank /\ ~upi) => response.reply \in FALLBACK_REPLIES

\* A text holding "upi", "bank" and "verify", in mixed case, got the verify
\* reply.
C6_Witness ==
    /\ last_request /= None
    /\ last_text = TEXT_ALL
    /\ last_request[1].request.conversationHistory /= None
    /\ Len(last_request[1].request.conversationHistory[1]) >= 2
    /\ response = HoneyPotResponse(VERIFY_REPLY)

\* C8 (as stated): no category of a report holds the same value twice.
no_duplicates(list) ==
    \A i, j \in 1..Len(list) : list[i] = list[j] => i = j

C8_Deduplicated ==
    \A n \in 1..Len(sent) :
        LET intel == sent[n].extractedIntelligence
        IN  /\ no_duplicates(intel.bankAccounts)
            /\ no_duplicates(intel.upiIds)
            /\ no_duplicates(intel.phishingLinks)
            /\ no_duplicates(intel.phoneNumbers)
            /\ no_duplicates(intel.suspiciousKeywords)

\* C11: handling a call for session id A leaves every session with another
\* id as it was (history, metadata, scam_detected), whatever requests and
\* report callbacks ran before; the map holds one session for each id that
\* has received an authenticated message and for no other id.
C11_SessionIsolation ==
    [][ \A call \in Calls :
          LET sid == call.request.sessionId
          IN  Handled(call)
              => /\ \A other \in DOMAIN sessions \ {sid} :
                        /\ other \in DOMAIN sessions'
                        /\ sessions'[other] = sessions[other]
                 /\ DOMAIN sessions' =
                        IF call.x_api_key \in VALID_API_KEYS
                        THEN DOMAIN sessions \cup {sid}
                        ELSE DOMAIN sessions
      ]_vars

\* A first message for s2 was handled while s1 was engaged with a report
\* scheduled or sent: both sessions exist and s1 still holds its history.
C11_Witness ==
    /\ last_call_valid
    /\ last_sid = "s2"
    /\ DOMAIN sessions = {"s1", "s2"}
    /\ Len(sessions["s2"].history) <= 2
    /\ sessions["s1"].scam_detected
    /\ Len(sessions["s1"].history) = 4
    /\ scheduled_count("s1") = 1

\* Every response chat_handler can give
PossibleResponses ==
    { Unauthorized, ServerError }
        \cup { HoneyPotResponse(r) :
                 r \in { OPENER_REPLY, VERIFY_REPLY, BANK_REPLY, UPI_REPLY,
                         GREETING_REPLY } \cup FALLBACK_REPLIES }

\* The responses the handler can give to `call` in the current state; the
\* random fallback choice makes it a set
responses_to(call) ==
    { r \in PossibleResponses : ENABLED (chat_handler(call) /\ response' = r) }

\* C12 (as stated): two calls that differ in conversationHistory alone get,
\* from the same stored state, the same replies (up to the random choice
\* among the fallback replies): conversationHistory does not influence the
\* reply, and so not the agent message stored with it.
C12_HistoryFieldIgnored ==
    \A c1, c2 \in Calls :
        ( /\ c1.x_api_key = c2.x_api_key
          /\ c1.request.sessionId = c2.request.sessionId
          /\ c1.request.message = c2.request.message
          /\ c1.request.metadata = c2.request.metadata )
        => responses_to(c1) = responses_to(c2)

\* The stored messages whose sender is not the agent's
adversary_only(history) == SelectSeq(history, LAMBDA m : m.sender /= "user")

\* C13: a report is what extraction gives on the history with every agent
\* reply removed; each keyword of the report occurs in a message with an
\* adversary sender, and each keyword and each handle token of such a
\* message is in the report.
C13_AdversaryMessagesOnly ==
    \A n \in 1..Len(sent) :
        LET history  == sessions[sent[n].sessionId].history
            intel    == sent[n].extractedIntelligence
            theirs   == adversary_only(history)
        IN  /\ intel = extract_intelligence(theirs)
            /\ \A k \in 1..Len(SCAM_KEYWORDS) :
                   list_in(SCAM_KEYWORDS[k], intel.suspiciousKeywords)
                       <=> \E i \in 1..Len(theirs) :
                               str_in(SCAM_KEYWORDS[k], str_lower(theirs[i].text))
            /\ \A i \in 1..Len(theirs) :
                   LET words == str_words(theirs[i].text)
                   IN  \A w \in 1..Len(words) :
                           str_in(<<"@">>, words[w]) => list_in(words[w], intel.upiIds)
            /\ \A i \in 1..Len(intel.upiIds) :
                   \E j \in 1..Len(theirs) :
                       list_in(intel.upiIds[i], str_words(theirs[j].text))

\* A report on a history in which the agent's "verify" reply follows an
\* adversary message without that keyword: the report holds the handle and
\* not the keyword.
C13_Witness ==
    /\ Len(sent) = 1
    /\ sessions["s1"].history
           = << Message("scammer", TEXT_MAIL, 0), Message("user", VERIFY_REPLY, 1),
                Message("scammer", TEXT_LINK, 0) >>
    /\ sent[1].extractedIntelligence.suspiciousKeywords = << KW_URGENT >>
    /\ Len(sent[1].extractedIntelligence.upiIds) = 2

\* C20: every report carries bankAccounts and phoneNumbers empty, whatever
\* account numbers and phone-like tokens the adversary messages hold.
C20_AccountsAndPhonesEmpty ==
    \A n \in 1..Len(sent) :
        /\ sent[n].extractedIntelligence.bankAccounts = << >>
        /\ sent[n].extractedIntelligence.phoneNumbers = << >>

\* A report on a history whose adversary messages hold an account number
\* and a phone number.
C20_Witness ==
    /\ Len(sent) = 1
    /\ \E i \in 1..Len(sessions["s1"].history) :
           sessions["s1"].history[i] = Message("scammer", TEXT_ACCOUNT, 0)
    /\ sent[1].totalMessagesExchanged = MaxHistory

\* Some indicator is a substring of the lower-cased text
holds_indicator(text) ==
    \E kw \in Keywords :
        \E i \in 1..Len(text) :
            /\ i + Len(kw) - 1 <= Len(text)
            /\ SubSeq(str_lower(text), i, i + Len(kw) - 1) = kw

\* C14: detect_scam is true exactly for the texts of which some indicator
\* is a substring once lower-cased, whatever the casing of the input; it is
\* false for the empty text; and it gives a result for every text.
C14_DetectorCorrect ==
    /\ DOMAIN sessions = {} => ENABLED detect_step
    /\ \A sid \in DOMAIN sessions :
           LET text  == sessions[sid].history[1].text
               found == sessions[sid].scam_detected
           IN  /\ found <=> holds_indicator(text)
               /\ text \in IndicatorTexts => found
               /\ text \in PlainTexts => ~found

\* The two-word indicator, in upper case inside a longer text, was
\* classified as a scam.
C14_Witness ==
    /\ DOMAIN sessions = {"s1"}
    /\ sessions["s1"].history[1].text
           = <<"D","e","a","r"," ">> \o str_upper(KW_PAN_CARD) \o <<" ","n","o","w">>
    /\ sessions["s1"].scam_detected

\* How many reports have been sent for sid
sent_count(sid) == Cardinality({ i \in 1..Len(sent) : sent[i].sessionId = sid })

\* C15: every report that chat_handler schedules is eventually sent,
\* whatever messages arrive meanwhile; the step that schedules it returns
\* the reply with the report still unsent, and sending it leaves that
\* response as it was.
C15_DispatchCompletes ==
    /\ \A sid \in SessionIds : \A n \in 1..(MaxRequests - 1) :
           (scheduled_count(sid) >= n) ~> (sent_count(sid) >= n)
    /\ [][ /\ \A sid \in SessionIds :
                Scheduled(sid) => response'.status = 200 /\ sent' = sent
           /\ sent' /= sent => response' = response
         ]_vars

\* Two reports were scheduled for s1 and both have been sent; the last
\* response is still the reply to the last message.
C15_Witness ==
    /\ sent_count("s1") = 2
    /\ background_tasks = << >>
    /\ last_call_valid
    /\ response.status = 200
    /\ response.reply = sessions[last_sid].history[Len(sessions[last_sid].history)].text

\* C16 (as stated): once a session's scam_detected is true, every later
\* authenticated call for that session takes the engaged branch, whatever
\* detect_scam says of its message: an agent reply is generated, appended
\* after the inbound message and returned.
C16_EngagementSticky ==
    [][ \A call \in Calls :
            LET sid == call.request.sessionId
                old == history_before(sid)
            IN  ( /\ Handled(call)
                  /\ call.x_api_key \in VALID_API_KEYS
                  /\ flag_before(sid) )
                    => /\ response'.status = 200
                       /\ sessions'[sid].scam_detected
                       /\ Len(sessions'[sid].history) = Len(old) + 2
                       /\ sessions'[sid].history[Len(old) + 1] = call.request.message
                       /\ sessions'[sid].history[Len(old) + 2].sender = "user"
                       /\ sessions'[sid].history[Len(old) + 2].text = response'.reply
      ]_vars

\* This step is send_callback running for sid
Executed(sid) ==
    \E i \in 1..Len(background_tasks) :
        /\ background_tasks[i] = sid
        /\ background_tasks' =
               SubSeq(background_tasks, 1, i - 1)
                   \o SubSeq(background_tasks, i + 1, Len(background_tasks))

\* C17: a step in which send_callback runs for a session leaves that
\* session's history, metadata and scam_detected as they were, and the
\* whole session map with them, wherever among the inbound messages the
\* step falls.
C17_DispatcherReadOnly ==
    [][ \A sid \in SessionIds :
            Executed(sid)
                => /\ sessions'[sid].history = sessions[sid].history
                   /\ sessions'[sid].metadata = sessions[sid].metadata
                   /\ sessions'[sid].scam_detected = sessions[sid].scam_detected
                   /\ sessions' = sessions
      ]_vars

\* Two reports for s1 were sent on either side of its third message: the
\* first counted four messages, the second six, and the session still
\* holds all six with its flag and metadata.
C17_Witness ==
    /\ Len(sent) = 2
    /\ sent[1].sessionId = "s1" /\ sent[1].totalMessagesExchanged = 4
    /\ sent[2].sessionId = "s1" /\ sent[2].totalMessagesExchanged = 6
    /\ Len(sessions["s1"].history) = 6
    /\ sessions["s1"].scam_detected
    /\ sessions["s1"].metadata = "sms"

\* C18: when send_callback runs for a session, whatever was handled since
\* the report was scheduled, the payload it sends has scamDetected true
\* and totalMessagesExchanged equal to the length of the session's history
\* at that moment, which is at least 4; that length is at least the length
\* at scheduling because a report is scheduled only for an engaged session
\* of at least four messages and no step shortens a history or clears the
\* flag.
C18_ReportContent ==
    [][ /\ \A sid \in SessionIds :
               Executed(sid)
                   => /\ Len(sent') = Len(sent) + 1
                      /\ SubSeq(sent', 1, Len(sent)) = sent
                      /\ sent'[Len(sent')].sessionId = sid
                      /\ sent'[Len(sent')].scamDetected
                      /\ sent'[Len(sent')].totalMessagesExchanged >= 4
                      /\ sent'[Len(sent')].totalMessagesExchanged
                             = Len(sessions[sid].history)
        /\ \A sid \in SessionIds :
               Scheduled(sid)
                   => /\ sessions'[sid].scam_detected
                      /\ Len(sessions'[sid].history) >= 4
        /\ \A sid \in DOMAIN sessions :
               /\ sid \in DOMAIN sessions'
               /\ Len(sessions'[sid].history) >= Len(sessions[sid].history)
               /\ sessions[sid].scam_detected => sessions'[sid].scam_detected
      ]_vars

\* Both reports of s1, the first scheduled when the session held four
\* messages, ran after its third message was handled: each counts six.
C18_Witness ==
    /\ Len(sent) = 2
    /\ sent[1].sessionId = "s1" /\ sent[1].totalMessagesExchanged = 6
    /\ sent[2].sessionId = "s1" /\ sent[2].totalMessagesExchanged = 6
    /\ sent[1].scamDetected /\ sent[2].scamDetected

\* Index of the first agent message of a history, or one past its end
first_agent(history) ==
    IF \E i \in 1..Len(history) : history[i].sender = "user"
    THEN CHOOSE i \in 1..Len(history) :
             /\ history[i].sender = "user"
             /\ \A j \in 1..(i - 1) : history[j].sender /= "user"
    ELSE Len(history) + 1

\* k inbound messages followed by m pairs (inbound message, agent reply)
inbound_then_pairs(history) ==
    LET f == first_agent(history)
    IN  IF f > Len(history) THEN TRUE
        ELSE /\ f >= 2
             /\ (Len(history) - f) % 2 = 0
             /\ \A i \in (f - 1)..Len(history) :
                    (history[i].sender = "user") <=> ((i - f) % 2 = 0)

\* C19 (as stated): in every reachable state each session's history is
\* k >= 0 inbound messages followed by m >= 0 pairs (inbound message, agent
\* reply), no agent reply is first or next to another, and the history
\* holds an agent reply exactly when the session's scam_detected is true.
C19_HistoryShape ==
    \A sid \in DOMAIN sessions :
        LET history == sessions[sid].history
        IN  /\ inbound_then_pairs(history)
            /\ Len(history) >= 1 => history[1].sender /= "user"
            /\ \A i \in 1..(Len(history) - 1) :
                   ~(history[i].sender = "user" /\ history[i + 1].sender = "user")
            /\ sessions[sid].scam_detected
                   <=> \E i \in 1..Len(history) : history[i].sender = "user"

====
